---------------------------- MODULE Spec2Model ----------------------------
(***************************************************************************)
(* Model of the tool-augmented dialogue engine of bella (src/chatter.py)   *)
(* and of the session loops that drive it (chatter.main and                *)
(* BellaTUI.run_interactive in src/bella_tui.py).                          *)
(*                                                                         *)
(* Data representation.                                                    *)
(*  - A JSON value is a record [kind, s, items]: kind names the Python type *)
(*    json.loads returns ("dict", "list", "str", "num", "null"), s is the  *)
(*    scalar's text, items the entries in insertion order as <<key, value>> *)
(*    pairs (the key of a list entry is "").                               *)
(*  - A text is a sequence of pieces [k, s, j]: "prose" (words that are    *)
(*    not JSON), "fence" (a ```json {...} ``` block holding the JSON object *)
(*    j), "badfence" (such a block whose braces do not hold valid JSON),   *)
(*    "openfence" (a ```json block that opens a brace and has no closing   *)
(*    brace before its closing fence), "raw" (the JSON value j written     *)
(*    without a fence) and "out" (a tool's output string).  The empty text *)
(*    is the empty sequence.                                               *)
(*  - A turn is a record [role, content, tool_call_id].                    *)
(***************************************************************************)
EXTENDS Naturals, Sequences, FiniteSets, TLC

\* ------------------------------------------------------------------ bounds
\* Rounds (calls of ask_ollama) one session may start.
MaxRounds == 2
\* Chunks the response streams of the Gateway deliver in one session, all
\* streams together.
MaxChunks == 2

\* ------------------------------------------------------------- JSON values
JNull == [kind |-> "null", s |-> "", items |-> <<>>]
JStr(x) == [kind |-> "str", s |-> x, items |-> <<>>]
JNum(x) == [kind |-> "num", s |-> x, items |-> <<>>]
JDict(pairs) == [kind |-> "dict", s |-> "", items |-> pairs]
JList(pairs) == [kind |-> "list", s |-> "", items |-> pairs]

\* d[k] and d.get(k, default) of a dict.
HasKey(d, k) == \E i \in 1..Len(d.items) : d.items[i][1] = k
Get(d, k) == d.items[CHOOSE i \in 1..Len(d.items) : d.items[i][1] = k][2]
GetOr(d, k, default) == IF HasKey(d, k) THEN Get(d, k) ELSE default

\* Python truthiness (`if not function_name`).
Truthy(j) ==
    CASE j.kind = "null" -> FALSE
      [] j.kind = "str" -> j.s # ""
      [] j.kind = "num" -> j.s # "0"
      [] OTHER -> j.items # <<>>

\* The substring relation on the strings of the model (`"function" in "..."`).
StrContains(hay, needle) == <<hay, needle>> \in {<<"use the function", "function">>}

\* `k in data` raises TypeError for a value that is no container.
PyInRaises(data) == data.kind \in {"num", "null"}
\* `k in data`: a key of a dict, an element of a list, a substring of a str.
PyIn(k, data) ==
    CASE data.kind = "dict" -> HasKey(data, k)
      [] data.kind = "list" -> \E i \in 1..Len(data.items) : data.items[i][2] = JStr(k)
      [] data.kind = "str" -> StrContains(data.s, k)
      [] OTHER -> FALSE

\* ------------------------------------------------------------------- texts
Prose(x) == [k |-> "prose", s |-> x, j |-> JNull]
Fence(j) == [k |-> "fence", s |-> "", j |-> j]
BadFence == [k |-> "badfence", s |-> "", j |-> JNull]
OpenFence == [k |-> "openfence", s |-> "", j |-> JNull]
Raw(j) == [k |-> "raw", s |-> "", j |-> j]
Out(tag, name) == [k |-> "out", s |-> tag, j |-> name]

\* -------------------------------------------------- Tool-Call Extractor
\* The canonical request dict {"function": {"name": ..., "arguments": ...}}.
FunctionCall(name, args) ==
    JDict(<< <<"function", JDict(<< <<"name", name>>, <<"arguments", args>> >>)>> >>)

\* A request of the round: a dict built by the Extractor ("extracted") or a
\* ToolCall object of the stream ("structured", its attributes held in data).
Extracted(data) == [origin |-> "extracted", data |-> data]
Structured(name, args) == [origin |-> "structured", data |-> FunctionCall(name, args)]

\* The result of a fallible computation that yields requests.
Raised == [raised |-> TRUE, calls |-> <<>>]
Returned(calls) == [raised |-> FALSE, calls |-> calls]

\* Mutant: the arguments are read from the "arguments" key in this shape too.
ParametersShape_Mut(data) ==
    <<[origin |-> "extracted",
       data |-> FunctionCall(Get(data, "name"), GetOr(data, "arguments", JDict(<<>>)))]>>

\* {"name": ..., "parameters": {...}}: parameters becomes arguments.
ParametersShape(data) ==
    <<Extracted(FunctionCall(Get(data, "name"), Get(data, "parameters")))>>

\* {"tool_call": {tool_name: {...}, ...}}: one request per entry, in map order.
ToolCallShape(data) ==
    LET m == Get(data, "tool_call").items
    IN  [i \in 1..Len(m) |-> Extracted(FunctionCall(JStr(m[i][1]), m[i][2]))]

\* {"name": ..., "arguments": {...}} or just {"name": ...}.
NameShape(data) ==
    <<Extracted(FunctionCall(Get(data, "name"), GetOr(data, "arguments", JDict(<<>>))))>>

\* Mutant: the tool_call shape is tried before the name+parameters shape.
NormalizeToolCall_Mut(data) ==
    IF PyInRaises(data) THEN Raised
    ELSE IF PyIn("function", data) THEN Returned(<<Extracted(data)>>)
    ELSE IF PyIn("tool_call", data)
         THEN IF data.kind = "dict" /\ Get(data, "tool_call").kind = "dict"
              THEN Returned(ToolCallShape(data)) ELSE Raised
    ELSE IF PyIn("name", data) /\ PyIn("parameters", data)
         THEN IF data.kind = "dict" THEN Returned(ParametersShape(data)) ELSE Raised
    ELSE IF PyIn("name", data)
         THEN IF data.kind = "dict" THEN Returned(NameShape(data)) ELSE Raised
    ELSE Returned(<<>>)

\* The body of the loop of _parse_tool_call_from_text for one parsed value:
\* the requests it appends, or the error it raises (only JSONDecodeError is
\* caught there, and json.loads has already succeeded).
NormalizeToolCall(data) ==
    IF PyInRaises(data) THEN Raised
    ELSE IF PyIn("function", data) THEN Returned(<<Extracted(data)>>)
    ELSE IF PyIn("name", data) /\ PyIn("parameters", data)
         THEN IF data.kind = "dict" THEN Returned(ParametersShape(data)) ELSE Raised
    ELSE IF PyIn("tool_call", data)
         THEN IF data.kind = "dict" /\ Get(data, "tool_call").kind = "dict"
              THEN Returned(ToolCallShape(data)) ELSE Raised
    ELSE IF PyIn("name", data)
         THEN IF data.kind = "dict" THEN Returned(NameShape(data)) ELSE Raised
    ELSE Returned(<<>>)

\* A piece the pattern r"```json\s*(\{.*?\})\s*```" matches by itself: a fenced
\* block whose content runs from a brace to a brace.
IsFenced(piece) == piece.k \in {"fence", "badfence"}

\* The matches of the pattern from piece i on.  A block that opens a brace and
\* closes none makes the non-greedy group run on to the first closing brace
\* that stands before a fence, which is the end of the next such block: the
\* match holds both blocks and what lies between, and is no valid JSON.  With
\* no such block after it, it matches nothing.
RECURSIVE MatchBlocks(_, _)
MatchBlocks(text, i) ==
    IF i > Len(text) THEN <<>>
    ELSE IF IsFenced(text[i]) THEN <<text[i]>> \o MatchBlocks(text, i + 1)
    ELSE IF text[i].k = "openfence" /\ \E j \in (i + 1)..Len(text) : IsFenced(text[j])
         THEN LET j == CHOOSE j \in (i + 1)..Len(text) :
                           /\ IsFenced(text[j])
                           /\ \A m \in (i + 1)..(j - 1) : ~IsFenced(text[m])
              IN  <<BadFence>> \o MatchBlocks(text, j + 1)
    ELSE MatchBlocks(text, i + 1)

\* re.findall(r"```json\s*(\{.*?\})\s*```", text): the fenced blocks, in order.
FencedBlocks(text) == MatchBlocks(text, 1)

\* json.loads(text) succeeds on the whole text: the text is one JSON value.
WholeTextIsJson(text) == Len(text) = 1 /\ text[1].k = "raw"

\* json_blocks: the fenced blocks, or the whole text when there is none and it
\* parses.
JsonBlocks(text) ==
    IF FencedBlocks(text) # <<>> THEN FencedBlocks(text)
    ELSE IF WholeTextIsJson(text) THEN text
    ELSE <<>>

\* The loop over json_blocks from block i on, acc being parsed_calls so far: a
\* block that is no valid JSON is skipped, an error of the body ends the call.
RECURSIVE ParseBlocks(_, _, _)
ParseBlocks(blocks, i, acc) ==
    IF i > Len(blocks) THEN Returned(acc)
    ELSE IF blocks[i].k = "badfence" THEN ParseBlocks(blocks, i + 1, acc)
    ELSE LET r == NormalizeToolCall(blocks[i].j)
         IN  IF r.raised THEN Raised
             ELSE ParseBlocks(blocks, i + 1, acc \o r.calls)

\* _parse_tool_call_from_text(text).
ParseToolCallFromText(text) == ParseBlocks(JsonBlocks(text), 1, <<>>)

\* ------------------------------------------------ Tool Registry and Executor
\* AVAILABLE_TOOLS: the registered names.
AVAILABLE_TOOLS ==
    {"read_file_tool", "write_file_tool", "web_fetch_tool", "web_search_tool",
     "list_directory_tool", "glob_tool", "search_file_content_tool",
     "run_shell_command_tool"}

\* The parameters of each capability's signature that have no default.
RequiredParams(name) ==
    CASE name = "read_file_tool" -> {"file_path"}
      [] name = "write_file_tool" -> {"file_path", "content"}
      [] name = "web_fetch_tool" -> {"url"}
      [] name = "web_search_tool" -> {"query"}
      [] name = "list_directory_tool" -> {}
      [] name = "glob_tool" -> {"pattern"}
      [] name = "search_file_content_tool" -> {"pattern", "file_path"}
      [] name = "run_shell_command_tool" -> {"command"}

\* The parameters that have a default.
OptionalParams(name) ==
    CASE name \in {"list_directory_tool", "glob_tool"} -> {"dir_path"}
      [] OTHER -> {}

Keys(d) == {d.items[i][1] : i \in 1..Len(d.items)}

\* available_tools[name](**args) binds: args is a mapping, every key is a
\* parameter and every parameter without default is given.  Otherwise the call
\* raises TypeError before the capability runs.
Binds(name, args) ==
    /\ args.kind = "dict"
    /\ Keys(args) \subseteq (RequiredParams(name) \cup OptionalParams(name))
    /\ RequiredParams(name) \subseteq Keys(args)

\* The capability itself raises: only run_shell_command_tool has code outside
\* its try (" ".join(command), command_str.startswith), which fails on a
\* command that is neither a string nor a list.
CapabilityRaises(name, args) ==
    name = "run_shell_command_tool" /\ Get(args, "command").kind \notin {"str", "list"}

\* What a capability that ran to its return can answer: its success string or
\* one of its failure strings.
CapOutcomes == {"ok", "failed"}

\* The directories of the model: the one the program is started in and its
\* subdirectory "sub"; no other directory exists.
StartDir == "/w"
SubDir == "/w/sub"

\* os.chdir(dir_path) with the working directory dir: the new directory, or
\* the error it raises (the path does not exist, or is no path at all).
Chdir(dir, dir_path) ==
    IF dir_path.kind # "str" THEN [ok |-> FALSE, cwd |-> dir]
    ELSE IF dir_path.s = "." THEN [ok |-> TRUE, cwd |-> dir]
    ELSE IF dir_path.s = "sub" /\ dir = StartDir THEN [ok |-> TRUE, cwd |-> SubDir]
    ELSE [ok |-> FALSE, cwd |-> dir]

\* Mutant: the directory is put back in a finally clause.
GlobTool_Mut(dir, args, cap) ==
    LET moved == Chdir(dir, GetOr(args, "dir_path", JStr(".")))
    IN  IF ~moved.ok \/ Get(args, "pattern").kind # "str"
        THEN [cwd |-> dir, tag |-> "failed"]
        ELSE [cwd |-> dir, tag |-> cap]

\* glob_tool(pattern, dir_path) called in directory dir: the directory it
\* leaves the process in and the kind of string it returns.  A failing chdir
\* is caught before the directory changed; glob.glob raises on a pattern that
\* is no string, and an error after the chdir (cap "failed": raised by
\* glob.glob or by the chdir back) is caught with the directory still changed.
GlobTool(dir, args, cap) ==
    LET moved == Chdir(dir, GetOr(args, "dir_path", JStr(".")))
    IN  IF ~moved.ok THEN [cwd |-> dir, tag |-> "failed"]
        ELSE IF Get(args, "pattern").kind # "str" THEN [cwd |-> moved.cwd, tag |-> "failed"]
        ELSE IF cap = "failed" THEN [cwd |-> moved.cwd, tag |-> "failed"]
        ELSE [cwd |-> dir, tag |-> "ok"]

NoId == [prefix |-> "", ns |-> 0]
NewId(prefix, ns) == [prefix |-> prefix, ns |-> ns]

\* isinstance(tool_call_item, dict) and "function" in tool_call_item.
IsFunctionDict(item) ==
    item.origin = "extracted" /\ item.data.kind = "dict" /\ HasKey(item.data, "function")

\* The first part of _execute_tool_call: function_name, function_args and the
\* id prefix; func_data.get raises when data["function"] is no dict.
DeriveCall(item) ==
    IF IsFunctionDict(item)
    THEN LET func_data == Get(item.data, "function")
         IN  IF func_data.kind # "dict"
             THEN [raised |-> TRUE, name |-> JNull, args |-> JNull, prefix |-> ""]
             ELSE [raised |-> FALSE,
                   name |-> GetOr(func_data, "name", JNull),
                   args |-> GetOr(func_data, "arguments", JDict(<<>>)),
                   prefix |-> "generated_from_text_"]
    ELSE IF item.origin = "structured"
         THEN LET func_obj == Get(item.data, "function")
              IN  [raised |-> FALSE,
                   name |-> GetOr(func_obj, "name", JNull),
                   args |-> GetOr(func_obj, "arguments", JDict(<<>>)),
                   prefix |-> "generated_ollama_tool_id_"]
         ELSE [raised |-> FALSE, name |-> JNull, args |-> JDict(<<>>),
               prefix |-> "generated_ollama_tool_id_"]

\* Mutant: a name that is not registered is answered like a capability's return.
Dispatch_Mut(name, args, cap) ==
    IF name.kind = "str" /\ name.s \in AVAILABLE_TOOLS
    THEN IF Binds(name.s, args) /\ ~CapabilityRaises(name.s, args)
         THEN <<Out(cap, name)>>
         ELSE <<Out("Error executing tool", name)>>
    ELSE <<Out(cap, name)>>

\* The dispatch of _execute_tool_call on a derived name: the tool output.
\* cap is the answer of the capability, should it run to its return.
Dispatch(name, args, cap) ==
    IF name.kind = "str" /\ name.s \in AVAILABLE_TOOLS
    THEN IF Binds(name.s, args) /\ ~CapabilityRaises(name.s, args)
         THEN <<Out(cap, name)>>
         ELSE <<Out("Error executing tool", name)>>
    ELSE <<Out("Unknown tool", name)>>

\* The capability is entered (its body runs).
Invokes(name, args) ==
    name.kind = "str" /\ name.s \in AVAILABLE_TOOLS /\ Binds(name.s, args)

\* What the capability of request item does when called in directory dir, cap
\* being its answer should nothing else decide it: the directory it leaves and
\* the kind of string it returns.  Only glob_tool touches the directory.
ToolOutcome(dir, item, cap) ==
    LET d == DeriveCall(item)
    IN  IF ~d.raised /\ Invokes(d.name, d.args) /\ d.name.s = "glob_tool"
        THEN GlobTool(dir, d.args, cap)
        ELSE [cwd |-> dir, tag |-> cap]

\* Mutant: a request without a name is answered as an unknown tool.
ExecuteToolCall_Mut(item, ns, cap) ==
    LET d == DeriveCall(item)
        none == [raised |-> FALSE, skipped |-> FALSE, id |-> NoId, output |-> <<>>,
                 invoked |-> FALSE, name |-> d.name, args |-> d.args]
    IN  IF d.raised THEN [none EXCEPT !.raised = TRUE]
        ELSE IF d.name.kind \in {"dict", "list"} THEN [none EXCEPT !.raised = TRUE]
        ELSE [none EXCEPT !.id = NewId(d.prefix, ns),
                          !.output = Dispatch(d.name, d.args, cap),
                          !.invoked = Invokes(d.name, d.args)]

\* _execute_tool_call(item, AVAILABLE_TOOLS) with time.time_ns() = ns:
\* raised (an error escapes), skipped (it returns (None, None)), or the id and
\* the output.
ExecuteToolCall(item, ns, cap) ==
    LET d == DeriveCall(item)
        none == [raised |-> FALSE, skipped |-> FALSE, id |-> NoId, output |-> <<>>,
                 invoked |-> FALSE, name |-> d.name, args |-> d.args]
    IN  IF d.raised THEN [none EXCEPT !.raised = TRUE]
        ELSE IF ~Truthy(d.name) THEN [none EXCEPT !.skipped = TRUE]
        ELSE IF d.name.kind \in {"dict", "list"} THEN [none EXCEPT !.raised = TRUE]
        ELSE [none EXCEPT !.id = NewId(d.prefix, ns),
                          !.output = Dispatch(d.name, d.args, cap),
                          !.invoked = Invokes(d.name, d.args)]

\* ------------------------------------------------------- Conversation Store
SystemTurn == [role |-> "system", content |-> <<Prose("system_prompt_content")>>,
               tool_call_id |-> NoId]
UserTurn(prompt) == [role |-> "user", content |-> <<Prose(prompt)>>, tool_call_id |-> NoId]
AssistantTurn(text) == [role |-> "assistant", content |-> text, tool_call_id |-> NoId]
ToolTurn(output, id) == [role |-> "tool", content |-> output, tool_call_id |-> id]

\* Mutant: pop(0), the list without its first element.
Pop_Mut(history) == SubSeq(history, 2, Len(history))

\* list.pop(): the list without its last element.
Pop(history) == SubSeq(history, 1, Len(history) - 1)

\* ------------------------------------------------------------------ inputs
\* What the user types at the prompt of a session loop: nothing, blanks, a
\* message, the exit command, the clear command of the interface.
Inputs(interface) ==
    {"", "  ", "hi", "EXIT"} \cup (IF interface = "cli" THEN {"/clear"} ELSE {"clear"})
\* str.strip() and str.lower() on those.
Strip(x) == IF x = "  " THEN "" ELSE x
Lower(x) == IF x = "EXIT" THEN "exit" ELSE x

ReadFileCall == FunctionCall(JStr("read_file_tool"), JDict(<< <<"file_path", JStr("a.txt")>> >>))

\* What one chunk of the first response stream can carry: a content delta, a
\* structured tool call, or both.
NoChunkPart == <<>>
Chunks1 ==
    {[content |-> <<Prose("hello")>>, tool_calls |-> NoChunkPart],
     [content |-> <<Fence(ReadFileCall)>>, tool_calls |-> NoChunkPart],
     [content |-> <<Raw(JNum("5"))>>, tool_calls |-> NoChunkPart],
     [content |-> <<OpenFence>>, tool_calls |-> NoChunkPart],
     [content |-> <<Fence(JDict(<< <<"function", JStr("read_file_tool")>> >>))>>,
      tool_calls |-> NoChunkPart],
     [content |-> NoChunkPart,
      tool_calls |-> <<Structured(JStr("list_directory_tool"), JDict(<<>>))>>]}

\* What one chunk of the continuation response stream can carry.
Chunks2 ==
    {[content |-> <<Prose("done")>>, tool_calls |-> NoChunkPart],
     [content |-> <<Fence(ReadFileCall)>>, tool_calls |-> NoChunkPart],
     [content |-> NoChunkPart,
      tool_calls |-> <<Structured(JStr("list_directory_tool"), JDict(<<>>))>>]}

\* ------------------------------------------------------------------- state
VARIABLES
    ui,                     \* the interface chosen in bella.py: "cli" or "tui"
    loop,                   \* the session loop: "prompt", "dispatch", "round",
                            \* "returned", "ended"
    user_input,             \* the stripped input the loop has read
    rounds,                 \* calls of ask_ollama started in the session
    chat_history,           \* chatter.chat_history, the Store ask_ollama uses
    tui_rebound,            \* bella_tui.chat_history no longer names chatter's list
    tui_chat_history,       \* the list bella_tui.chat_history names once rebound
    is_processing,          \* BellaTUI.is_processing
    pc,                     \* the position in ask_ollama
    full_response_content,  \* the text aggregated from the first stream
    tool_calls,             \* the requests of the round
    idx,                    \* the next request of the for loop (1-based)
    final_ai_response,      \* the text aggregated from the continuation stream
    delivered,              \* chunks the Gateway has delivered in the session
    clock,                  \* the last value of time.time_ns()
    cwd,                    \* the working directory of the process (os.getcwd())
    snapshot,               \* the Store when the last round was called
    trace,                  \* the calls of ollama.chat and _execute_tool_call of the round
    ending,                 \* the exit ask_ollama took, "none" while it runs
    retval,                 \* what the last call of ask_ollama gave its caller
    rejected,               \* calls of process_user_input answered "Already
                            \* processing..." since the round was called
    \* src/deepseek_chat.py, a program of its own
    chat_pc,                \* the position in main: "input", "dispatch",
                            \* "thinking", "except", "returned"
    message,                \* the stripped line main has read
    stdin,                  \* "open", or "eof" once the input has ended for good
    printed,                \* what main printed last
    exchanges,              \* messages sent to the API
    \* src/bella_simple.py, a program of its own
    AI_MODE,                \* the global AI_MODE
    DEEPSEEK_KEY,           \* the global DEEPSEEK_KEY
    messages,               \* the list messages of simple_tui
    lines,                  \* the list lines of simple_tui
    simple_pc               \* the position in simple_tui: "prompt", "reading",
                            \* "asking", "returned", "raised"

session == <<ui, loop, user_input, rounds, is_processing>>
store == <<chat_history, tui_rebound, tui_chat_history>>
locals == <<full_response_content, tool_calls, idx, final_ai_response>>
ghost == <<snapshot, trace, ending, retval, rejected>>
deepseek_chat == <<chat_pc, message, stdin, printed, exchanges>>
bella_simple == <<AI_MODE, DEEPSEEK_KEY, messages, lines, simple_pc>>
chatter == <<session, store, pc, locals, delivered, clock, cwd, ghost>>
vars == <<chatter, deepseek_chat, bella_simple>>

\* deepseek_chat.main as it is entered.
DeepseekChatStart ==
    /\ chat_pc = "input"
    /\ message = ""
    /\ stdin = "open"
    /\ printed = "banner"
    /\ exchanges = 0

\* bella_simple as simple_tui is entered, key being what the module holds once
\* it is loaded: the placeholder, or the key of the file .deepseek-key.
BellaSimpleStart(key) ==
    /\ AI_MODE = "ollama"
    /\ DEEPSEEK_KEY = key
    /\ messages = <<>>
    /\ lines = <<>>
    /\ simple_pc = "prompt"


NoValue == [kind |-> "none", text |-> <<>>]
Return(text) == [kind |-> "return", text |-> text]
Raise(text) == [kind |-> "raise", text |-> text]
KeyboardInterrupt == [kind |-> "interrupt", text |-> <<>>]

\* An entry of the trace: a call of ollama.chat (ev "chat", site the call's place
\* in ask_ollama) or of _execute_tool_call (ev "tool", with the name and the
\* arguments it derived from the request, and whether it entered a capability).
Event(ev, site, name, args, invoked) ==
    [ev |-> ev, site |-> site, name |-> name, args |-> args, invoked |-> invoked]
ChatEvent(site) == Event("chat", site, JNull, JNull, FALSE)
ToolEvent(name, args, invoked) == Event("tool", "exec", name, args, invoked)

\* chatter as its module is loaded: the Store holds the system turn, no round
\* has run.
ChatterLoaded ==
    /\ loop = "prompt"
    /\ user_input = ""
    /\ rounds = 0
    /\ chat_history = <<SystemTurn>>
    /\ tui_rebound = FALSE
    /\ tui_chat_history = <<SystemTurn>>
    /\ is_processing = FALSE
    /\ pc = "idle"
    /\ full_response_content = <<>>
    /\ tool_calls = <<>>
    /\ idx = 1
    /\ final_ai_response = <<>>
    /\ delivered = 0
    /\ clock = 0
    /\ cwd = StartDir
    /\ snapshot = <<SystemTurn>>
    /\ trace = <<>>
    /\ ending = "none"
    /\ retval = NoValue
    /\ rejected = 0

Init ==
    /\ ui \in {"cli", "tui"}
    /\ ChatterLoaded
    /\ DeepseekChatStart
    /\ BellaSimpleStart("YOUR_DEEPSEEK_KEY")

\* The list bella_tui.chat_history names (imported from chatter at start).
TuiHistory == IF tui_rebound THEN tui_chat_history ELSE chat_history

\* ------------------------------------------------------------ session loops
\* Mutant: the check for an empty input is missing.
StartsRound_Mut(interface, text) ==
    IF interface = "cli"
    THEN Lower(text) \notin {"exit", "/clear"}
    ELSE Lower(text) \notin {"help", "clear", "quit", "exit"}

\* Inputs that make the loop call ask_ollama.
StartsRound(interface, text) ==
    IF interface = "cli"
    THEN Lower(text) \notin {"exit", "/clear"} /\ text # ""
    ELSE text # "" /\ Lower(text) \notin {"help", "clear", "quit", "exit"}

\* session.prompt(...).strip() in main, get_user_input_non_blocking() and
\* strip() in run_interactive.
ReadInput ==
    /\ loop = "prompt"
    /\ \E typed \in Inputs(ui) :
          /\ StartsRound(ui, Strip(typed)) => rounds < MaxRounds
          /\ user_input' = Strip(typed)
    /\ loop' = "dispatch"
    /\ UNCHANGED <<ui, rounds, is_processing, store, pc, locals, delivered, clock, cwd, deepseek_chat, bella_simple, ghost>>

\* Ctrl+C at the prompt: main breaks, get_user_input_non_blocking returns None.
InterruptAtPrompt ==
    /\ loop = "prompt"
    /\ loop' = "ended"
    /\ UNCHANGED <<ui, user_input, rounds, is_processing, store, pc, locals, delivered, clock, cwd, deepseek_chat, bella_simple, ghost>>

\* `if not user_input: continue` of both loops.
DispatchEmpty ==
    /\ loop = "dispatch"
    /\ user_input = ""
    /\ loop' = "prompt"
    /\ UNCHANGED <<ui, user_input, rounds, is_processing, store, pc, locals, delivered, clock, cwd, deepseek_chat, bella_simple, ghost>>

\* "exit" in main, "quit" or "exit" in run_interactive: break.
DispatchExit ==
    /\ loop = "dispatch"
    /\ IF ui = "cli" THEN Lower(user_input) = "exit"
       ELSE Lower(user_input) \in {"quit", "exit"}
    /\ loop' = "ended"
    /\ UNCHANGED <<ui, user_input, rounds, is_processing, store, pc, locals, delivered, clock, cwd, deepseek_chat, bella_simple, ghost>>

\* "clear" in run_interactive: `global chat_history` names the global of module
\* bella_tui, so the assignment rebinds that name to a new one-turn list and
\* leaves chatter's list as it is.  ("/clear" in main only clears the screen.)
DispatchClear ==
    /\ loop = "dispatch"
    /\ ui = "tui"
    /\ Lower(user_input) = "clear"
    /\ tui_rebound' = TRUE
    /\ tui_chat_history' = <<TuiHistory[1]>>
    /\ loop' = "prompt"
    /\ UNCHANGED <<ui, user_input, rounds, is_processing, chat_history, pc, locals,
                   delivered, clock, cwd, deepseek_chat, bella_simple, ghost>>

\* Mutant: the user turn is not appended before the first call.
DispatchPrompt_Mut ==
    /\ loop = "dispatch"
    /\ StartsRound(ui, user_input)
    /\ ~is_processing
    /\ rounds < MaxRounds
    /\ rounds' = rounds + 1
    /\ loop' = "round"
    /\ is_processing' = (ui = "tui")
    /\ snapshot' = chat_history
    /\ chat_history' = chat_history
    /\ pc' = "first_call"
    /\ full_response_content' = <<>>
    /\ tool_calls' = <<>>
    /\ idx' = 1
    /\ final_ai_response' = <<>>
    /\ trace' = <<>>
    /\ ending' = "none"
    /\ retval' = NoValue
    /\ rejected' = 0
    /\ UNCHANGED <<ui, user_input, tui_rebound, tui_chat_history, delivered, clock, cwd, deepseek_chat, bella_simple>>

\* Any other input: ask_ollama(user_input) is called (through
\* process_user_input in the TUI) and appends the user turn first.
DispatchPrompt ==
    /\ loop = "dispatch"
    /\ StartsRound(ui, user_input)
    /\ ~is_processing
    /\ rounds < MaxRounds
    /\ rounds' = rounds + 1
    /\ loop' = "round"
    /\ is_processing' = (ui = "tui")
    /\ snapshot' = chat_history
    /\ chat_history' = Append(chat_history, UserTurn(user_input))
    /\ pc' = "first_call"
    /\ full_response_content' = <<>>
    /\ tool_calls' = <<>>
    /\ idx' = 1
    /\ final_ai_response' = <<>>
    /\ trace' = <<>>
    /\ ending' = "none"
    /\ retval' = NoValue
    /\ rejected' = 0
    /\ UNCHANGED <<ui, user_input, tui_rebound, tui_chat_history, delivered, clock, cwd, deepseek_chat, bella_simple>>

\* Bound on the calls of process_user_input made while one round runs.
MaxRejected == 1

\* Mutant: the call is answered only after the user turn was appended.
ProcessUserInputWhileBusy_Mut ==
    /\ ui = "tui"
    /\ loop = "round"
    /\ is_processing
    /\ rejected < MaxRejected
    /\ rejected' = rejected + 1
    /\ chat_history' = Append(chat_history, UserTurn(user_input))
    /\ UNCHANGED <<session, tui_rebound, tui_chat_history, pc, locals, delivered, clock, cwd, deepseek_chat, bella_simple,
                   snapshot, trace, ending, retval>>

\* process_user_input called while a round it started is running (by a caller
\* other than the loop, which is inside that round): lines 183-184 answer
\* "Already processing..." before anything else is done.
ProcessUserInputWhileBusy ==
    /\ ui = "tui"
    /\ loop = "round"
    /\ is_processing
    /\ rejected < MaxRejected
    /\ rejected' = rejected + 1
    /\ UNCHANGED <<session, store, pc, locals, delivered, clock, cwd, deepseek_chat, bella_simple, snapshot, trace,
                   ending, retval>>

\* Mutant: is_processing is cleared after the try block, which only a return
\* reaches.
Finish_Mut(how, value) ==
    /\ ending' = how
    /\ retval' = value
    /\ pc' = "idle"
    /\ loop' = "returned"
    /\ is_processing' = (is_processing /\ value.kind # "return")
    /\ UNCHANGED <<ui, user_input, rounds, snapshot, rejected>>

\* ask_ollama ends by exit `how` with `value` (a return, an Exception or a
\* KeyboardInterrupt); process_user_input's finally clears is_processing.
Finish(how, value) ==
    /\ ending' = how
    /\ retval' = value
    /\ pc' = "idle"
    /\ loop' = "returned"
    /\ is_processing' = FALSE
    /\ UNCHANGED <<ui, user_input, rounds, snapshot, rejected>>

\* Mutant: an error of the round breaks the loop as an interrupt does.
Resume_Mut ==
    /\ loop = "returned"
    /\ loop' = IF retval.kind \in {"interrupt", "raise"} THEN "ended" ELSE "prompt"
    /\ user_input' = ""
    /\ full_response_content' = <<>>
    /\ tool_calls' = <<>>
    /\ idx' = 1
    /\ final_ai_response' = <<>>
    /\ snapshot' = chat_history
    /\ trace' = <<>>
    /\ ending' = "none"
    /\ retval' = NoValue
    /\ rejected' = 0
    /\ UNCHANGED <<ui, rounds, is_processing, store, pc, delivered, clock, cwd, deepseek_chat, bella_simple>>

\* The loop takes the outcome of the round: a return or an Exception leads back
\* to the prompt (main catches Exception and prints it, process_user_input turns
\* it into an "Error: ..." string), a KeyboardInterrupt breaks the loop.  The
\* locals of the finished call are gone.
Resume ==
    /\ loop = "returned"
    /\ loop' = IF retval.kind = "interrupt" THEN "ended" ELSE "prompt"
    /\ user_input' = ""
    /\ full_response_content' = <<>>
    /\ tool_calls' = <<>>
    /\ idx' = 1
    /\ final_ai_response' = <<>>
    /\ snapshot' = chat_history
    /\ trace' = <<>>
    /\ ending' = "none"
    /\ retval' = NoValue
    /\ rejected' = 0
    /\ UNCHANGED <<ui, rounds, is_processing, store, pc, delivered, clock, cwd, deepseek_chat, bella_simple>>

\* ------------------------------------------------------------- ask_ollama
ErrorMsg == <<Prose("Error with Ollama model")>>

\* Mutant: the except branch returns the error without chat_history.pop().
FirstCall_Mut ==
    /\ pc = "first_call"
    /\ trace' = Append(trace, ChatEvent("first"))
    /\ \/ /\ pc' = "first_call_again"
          /\ UNCHANGED <<session, snapshot, rejected, ending, retval>>
       \/ Finish("first_call_failed", Return(ErrorMsg))
    /\ UNCHANGED <<store, locals, delivered, clock, cwd, deepseek_chat, bella_simple>>

\* The first ollama.chat(...) of the round, lines 511-519.
FirstCall ==
    /\ pc = "first_call"
    /\ trace' = Append(trace, ChatEvent("first"))
    /\ \/ /\ pc' = "first_call_again"
          /\ UNCHANGED <<session, chat_history, snapshot, rejected, ending, retval>>
       \/ /\ chat_history' = Pop(chat_history)
          /\ Finish("first_call_failed", Return(ErrorMsg))
    /\ UNCHANGED <<tui_rebound, tui_chat_history, locals, delivered, clock, cwd, deepseek_chat, bella_simple>>

\* Mutant: the rollback pops two turns.
FirstCallAgain_Mut ==
    /\ pc = "first_call_again"
    /\ trace' = Append(trace, ChatEvent("first_again"))
    /\ \/ /\ pc' = "stream1"
          /\ UNCHANGED <<session, chat_history, snapshot, rejected, ending, retval>>
       \/ /\ chat_history' = Pop(Pop(chat_history))
          /\ Finish("first_call_failed", Return(ErrorMsg))
    /\ UNCHANGED <<tui_rebound, tui_chat_history, locals, delivered, clock, cwd, deepseek_chat, bella_simple>>

\* The same call made once more, lines 521-529; its generator is the one consumed.
FirstCallAgain ==
    /\ pc = "first_call_again"
    /\ trace' = Append(trace, ChatEvent("first_again"))
    /\ \/ /\ pc' = "stream1"
          /\ UNCHANGED <<session, chat_history, snapshot, rejected, ending, retval>>
       \/ /\ chat_history' = Pop(chat_history)
          /\ Finish("first_call_failed", Return(ErrorMsg))
    /\ UNCHANGED <<tui_rebound, tui_chat_history, locals, delivered, clock, cwd, deepseek_chat, bella_simple>>

\* One iteration of `for chunk in response_generator`, lines 536-545.
Stream1Chunk ==
    /\ pc = "stream1"
    /\ delivered < MaxChunks
    /\ \E chunk \in Chunks1 :
          /\ full_response_content' = full_response_content \o chunk.content
          /\ tool_calls' = tool_calls \o chunk.tool_calls
    /\ delivered' = delivered + 1
    /\ UNCHANGED <<session, store, pc, idx, final_ai_response, clock, cwd, deepseek_chat, bella_simple, ghost>>

\* Mutant: the interrupted response is kept as an assistant turn.
Stream1Interrupt_Mut ==
    /\ pc = "stream1"
    /\ chat_history' = Append(chat_history, AssistantTurn(full_response_content))
    /\ Finish("first_stream_interrupt", Return(<<>>))
    /\ UNCHANGED <<tui_rebound, tui_chat_history, locals, delivered, clock, cwd, deepseek_chat, bella_simple, trace, rejected>>

\* KeyboardInterrupt while the first stream is consumed, lines 546-548.
Stream1Interrupt ==
    /\ pc = "stream1"
    /\ Finish("first_stream_interrupt", Return(<<>>))
    /\ UNCHANGED <<store, locals, delivered, clock, cwd, deepseek_chat, bella_simple, trace, rejected>>

\* Any other error raised by the first stream: nothing in ask_ollama catches it.
Stream1Error ==
    /\ pc = "stream1"
    /\ Finish("first_stream_error", Raise(<<Prose("stream error")>>))
    /\ UNCHANGED <<store, locals, delivered, clock, cwd, deepseek_chat, bella_simple, trace, rejected>>

\* Mutant: extraction no longer asks whether structured calls came.
ExtractionAttempted_Mut(calls, content) == content # <<>>

\* Text extraction is attempted, line 553.
ExtractionAttempted(calls, content) == calls = <<>> /\ content # <<>>

\* Mutant: the text of the first response is appended whether or not requests
\* were found in it.
Stream1EndStoresText_Mut ==
    /\ pc = "stream1"
    /\ LET attempted == ExtractionAttempted(tool_calls, full_response_content)
           parsed == IF attempted THEN ParseToolCallFromText(full_response_content)
                     ELSE Returned(<<>>)
           calls == tool_calls \o parsed.calls
       IN  IF parsed.raised
           THEN /\ Finish("extract_error", Raise(<<Prose("TypeError")>>))
                /\ UNCHANGED <<chat_history, tool_calls>>
           ELSE /\ tool_calls' = calls
                /\ chat_history' =
                      IF attempted
                      THEN Append(chat_history, AssistantTurn(full_response_content))
                      ELSE chat_history
                /\ IF calls # <<>>
                   THEN /\ pc' = "exec"
                        /\ UNCHANGED <<session, snapshot, rejected, ending, retval>>
                   ELSE Finish("no_tools", Return(full_response_content))
    /\ UNCHANGED <<tui_rebound, tui_chat_history, full_response_content, idx,
                   final_ai_response, delivered, clock, cwd, deepseek_chat, bella_simple, trace, rejected>>

\* Mutant: a text without requests is returned but not appended.
Stream1End_Mut ==
    /\ pc = "stream1"
    /\ LET attempted == ExtractionAttempted(tool_calls, full_response_content)
           parsed == IF attempted THEN ParseToolCallFromText(full_response_content)
                     ELSE Returned(<<>>)
           calls == tool_calls \o parsed.calls
       IN  IF parsed.raised
           THEN /\ Finish("extract_error", Raise(<<Prose("TypeError")>>))
                /\ UNCHANGED <<chat_history, tool_calls>>
           ELSE /\ tool_calls' = calls
                /\ chat_history' = chat_history
                /\ IF calls # <<>>
                   THEN /\ pc' = "exec"
                        /\ UNCHANGED <<session, snapshot, rejected, ending, retval>>
                   ELSE Finish("no_tools", Return(full_response_content))
    /\ UNCHANGED <<tui_rebound, tui_chat_history, full_response_content, idx,
                   final_ai_response, delivered, clock, cwd, deepseek_chat, bella_simple, trace, rejected>>

\* The first stream ends, lines 550-561 and 598-600: extraction when no
\* structured call came, the assistant turn when extraction found nothing, then
\* the tool loop or the return.
Stream1End ==
    /\ pc = "stream1"
    /\ LET attempted == ExtractionAttempted(tool_calls, full_response_content)
           parsed == IF attempted THEN ParseToolCallFromText(full_response_content)
                     ELSE Returned(<<>>)
           calls == tool_calls \o parsed.calls
       IN  IF parsed.raised
           THEN /\ Finish("extract_error", Raise(<<Prose("TypeError")>>))
                /\ UNCHANGED <<chat_history, tool_calls>>
           ELSE /\ tool_calls' = calls
                /\ chat_history' =
                      IF attempted /\ parsed.calls = <<>>
                      THEN Append(chat_history, AssistantTurn(full_response_content))
                      ELSE chat_history
                /\ IF calls # <<>>
                   THEN /\ pc' = "exec"
                        /\ UNCHANGED <<session, snapshot, rejected, ending, retval>>
                   ELSE Finish("no_tools", Return(full_response_content))
    /\ UNCHANGED <<tui_rebound, tui_chat_history, full_response_content, idx,
                   final_ai_response, delivered, clock, cwd, deepseek_chat, bella_simple, trace, rejected>>

\* Mutant: a tool output that reports a failure ends the round.
ExecTool_Mut ==
    /\ pc = "exec"
    /\ idx <= Len(tool_calls)
    /\ \E tick \in {0, 1}, cap \in CapOutcomes :
          LET env == ToolOutcome(cwd, tool_calls[idx], cap)
              r == ExecuteToolCall(tool_calls[idx], clock + tick, env.tag)
          IN  /\ clock' = clock + tick
              /\ cwd' = env.cwd
              /\ trace' = Append(trace, ToolEvent(r.name, r.args, r.invoked))
              /\ IF r.raised \/ (~r.skipped /\ r.output[1].s \notin {"ok", "Unknown tool"})
                 THEN /\ Finish("exec_error", Raise(<<Prose("AttributeError")>>))
                      /\ UNCHANGED <<chat_history, idx>>
                 ELSE /\ idx' = idx + 1
                      /\ chat_history' =
                            IF r.skipped THEN chat_history
                            ELSE Append(chat_history, ToolTurn(r.output, r.id))
                      /\ UNCHANGED <<session, pc, snapshot, rejected, ending, retval>>
    /\ UNCHANGED <<tui_rebound, tui_chat_history, full_response_content, tool_calls,
                   final_ai_response, delivered, deepseek_chat, bella_simple>>

\* Mutant: the requests are run from the last to the first.
ExecToolReversed_Mut ==
    /\ pc = "exec"
    /\ idx <= Len(tool_calls)
    /\ \E tick \in {0, 1}, cap \in CapOutcomes :
          LET item == tool_calls[Len(tool_calls) + 1 - idx]
              env == ToolOutcome(cwd, item, cap)
              r == ExecuteToolCall(item, clock + tick, env.tag)
          IN  /\ clock' = clock + tick
              /\ cwd' = env.cwd
              /\ trace' = Append(trace, ToolEvent(r.name, r.args, r.invoked))
              /\ IF r.raised
                 THEN /\ Finish("exec_error", Raise(<<Prose("AttributeError")>>))
                      /\ UNCHANGED <<chat_history, idx>>
                 ELSE /\ idx' = idx + 1
                      /\ chat_history' =
                            IF r.skipped THEN chat_history
                            ELSE Append(chat_history, ToolTurn(r.output, r.id))
                      /\ UNCHANGED <<session, pc, snapshot, rejected, ending, retval>>
    /\ UNCHANGED <<tui_rebound, tui_chat_history, full_response_content, tool_calls,
                   final_ai_response, delivered, deepseek_chat, bella_simple>>

\* One iteration of `for tool_call_item in tool_calls`, lines 562-575.
ExecTool ==
    /\ pc = "exec"
    /\ idx <= Len(tool_calls)
    /\ \E tick \in {0, 1}, cap \in CapOutcomes :
          LET env == ToolOutcome(cwd, tool_calls[idx], cap)
              r == ExecuteToolCall(tool_calls[idx], clock + tick, env.tag)
          IN  /\ clock' = clock + tick
              /\ cwd' = env.cwd
              /\ trace' = Append(trace, ToolEvent(r.name, r.args, r.invoked))
              /\ IF r.raised
                 THEN /\ Finish("exec_error", Raise(<<Prose("AttributeError")>>))
                      /\ UNCHANGED <<chat_history, idx>>
                 ELSE /\ idx' = idx + 1
                      /\ chat_history' =
                            IF r.skipped THEN chat_history
                            ELSE Append(chat_history, ToolTurn(r.output, r.id))
                      /\ UNCHANGED <<session, pc, snapshot, rejected, ending, retval>>
    /\ UNCHANGED <<tui_rebound, tui_chat_history, full_response_content, tool_calls,
                   final_ai_response, delivered, deepseek_chat, bella_simple>>

\* Ctrl+C in _execute_tool_call, before or inside the capability:
\* KeyboardInterrupt is no Exception, so neither the capability nor
\* _execute_tool_call nor ask_ollama catches it; glob_tool interrupted after its
\* chdir leaves the directory changed.
ExecInterrupt ==
    /\ pc = "exec"
    /\ idx <= Len(tool_calls)
    /\ LET d == DeriveCall(tool_calls[idx])
       IN  \E inside \in {FALSE, ~d.raised /\ Invokes(d.name, d.args)} :
              /\ trace' = Append(trace, ToolEvent(d.name, d.args, inside))
              /\ cwd' = IF inside THEN ToolOutcome(cwd, tool_calls[idx], "failed").cwd
                        ELSE cwd
    /\ Finish("exec_interrupt", KeyboardInterrupt)
    /\ UNCHANGED <<store, locals, delivered, clock, deepseek_chat, bella_simple>>

\* Mutant: a failed continuation call rolls the round back.
SecondCallRollsBack_Mut ==
    /\ pc = "exec"
    /\ idx > Len(tool_calls)
    /\ trace' = Append(trace, ChatEvent("second"))
    /\ \/ /\ pc' = "stream2"
          /\ chat_history' = chat_history
          /\ UNCHANGED <<session, snapshot, rejected, ending, retval>>
       \/ /\ Finish("second_call_failed", Return(<<Prose("str(e)")>>))
          /\ chat_history' = snapshot
    /\ UNCHANGED <<tui_rebound, tui_chat_history, locals, delivered, clock, cwd, deepseek_chat, bella_simple>>

\* Mutant: the continuation call does not wait for the end of the tool loop.
SecondCall_Mut ==
    /\ pc = "exec"
    /\ trace' = Append(trace, ChatEvent("second"))
    /\ \/ /\ pc' = "stream2"
          /\ UNCHANGED <<session, snapshot, rejected, ending, retval>>
       \/ Finish("second_call_failed", Return(<<Prose("str(e)")>>))
    /\ UNCHANGED <<store, locals, delivered, clock, cwd, deepseek_chat, bella_simple>>

\* The continuation call after the tool loop, lines 577-586.
SecondCall ==
    /\ pc = "exec"
    /\ idx > Len(tool_calls)
    /\ trace' = Append(trace, ChatEvent("second"))
    /\ \/ /\ pc' = "stream2"
          /\ UNCHANGED <<session, snapshot, rejected, ending, retval>>
       \/ Finish("second_call_failed", Return(<<Prose("str(e)")>>))
    /\ UNCHANGED <<store, locals, delivered, clock, cwd, deepseek_chat, bella_simple>>

\* One iteration of `for chunk in second_response_generator`, lines 589-594:
\* only the content is read.
Stream2Chunk ==
    /\ pc = "stream2"
    /\ delivered < MaxChunks
    /\ \E chunk \in Chunks2 :
          final_ai_response' = final_ai_response \o chunk.content
    /\ delivered' = delivered + 1
    /\ UNCHANGED <<session, store, pc, full_response_content, tool_calls, idx, clock, cwd, deepseek_chat, bella_simple, ghost>>

\* Mutant: the continuation response is searched for tool calls, which are
\* executed before the assistant turn is appended.
Stream2End_Mut ==
    /\ pc = "stream2"
    /\ LET parsed == ParseToolCallFromText(final_ai_response).calls
           run(i) == ExecuteToolCall(parsed[i], clock, "ok")
       IN  /\ chat_history' =
                 (chat_history \o [i \in 1..Len(parsed) |-> ToolTurn(run(i).output, run(i).id)])
                 \o <<AssistantTurn(final_ai_response)>>
           /\ trace' =
                 trace \o [i \in 1..Len(parsed) |->
                              ToolEvent(run(i).name, run(i).args, run(i).invoked)]
    /\ Finish("tools_done", Return(final_ai_response))
    /\ UNCHANGED <<tui_rebound, tui_chat_history, locals, delivered, clock, cwd, deepseek_chat, bella_simple>>

\* Mutant: the text of the first response is returned.
Stream2EndReturnsFirst_Mut ==
    /\ pc = "stream2"
    /\ chat_history' = Append(chat_history, AssistantTurn(final_ai_response))
    /\ Finish("tools_done", Return(full_response_content))
    /\ UNCHANGED <<tui_rebound, tui_chat_history, locals, delivered, clock, cwd, deepseek_chat, bella_simple, trace>>

\* The continuation stream ends, lines 595-597.
Stream2End ==
    /\ pc = "stream2"
    /\ chat_history' = Append(chat_history, AssistantTurn(final_ai_response))
    /\ Finish("tools_done", Return(final_ai_response))
    /\ UNCHANGED <<tui_rebound, tui_chat_history, locals, delivered, clock, cwd, deepseek_chat, bella_simple, trace, rejected>>

\* An error raised by the continuation stream: the loop has no handler.
Stream2Error ==
    /\ pc = "stream2"
    /\ Finish("second_stream_error", Raise(<<Prose("stream error")>>))
    /\ UNCHANGED <<store, locals, delivered, clock, cwd, deepseek_chat, bella_simple, trace, rejected>>

\* Ctrl+C while the continuation stream is consumed: no handler either.
Stream2Interrupt ==
    /\ pc = "stream2"
    /\ Finish("second_stream_interrupt", KeyboardInterrupt)
    /\ UNCHANGED <<store, locals, delivered, clock, cwd, deepseek_chat, bella_simple, trace, rejected>>

Next ==
    \/ ReadInput
    \/ InterruptAtPrompt
    \/ DispatchEmpty
    \/ DispatchExit
    \/ DispatchClear
    \/ DispatchPrompt
    \/ ProcessUserInputWhileBusy
    \/ Resume
    \/ FirstCall
    \/ FirstCallAgain
    \/ Stream1Chunk
    \/ Stream1Interrupt
    \/ Stream1Error
    \/ Stream1End
    \/ ExecTool
    \/ ExecInterrupt
    \/ SecondCall
    \/ Stream2Chunk
    \/ Stream2End
    \/ Stream2Error
    \/ Stream2Interrupt

Spec == Init /\ [][Next]_vars

\* --------------------------------------------- extraction of the four shapes
\* The tool names and argument mappings the shapes are tried on.
ShapeNames == {"read_file_tool", "run_shell_command_tool", "nope_tool"}
ShapeArgs ==
    {JDict(<<>>),
     JDict(<< <<"file_path", JStr("a.txt")>> >>),
     JDict(<< <<"command", JList(<< <<"", JStr("ls")>>, <<"", JStr("-l")>> >>)>> >>),
     JDict(<< <<"file_path", JStr("a.txt")>>, <<"verbose", JNum("1")>> >>)}
Shapes == {"function", "parameters", "tool_call", "name"}

\* The JSON object of shape sh that describes the call of n with a.
ShapeOf(sh, n, a) ==
    CASE sh = "function" -> FunctionCall(JStr(n), a)
      [] sh = "parameters" -> JDict(<< <<"name", JStr(n)>>, <<"parameters", a>> >>)
      [] sh = "tool_call" -> JDict(<< <<"tool_call", JDict(<< <<n, a>> >>)>> >>)
      [] sh = "name" -> JDict(<< <<"name", JStr(n)>>, <<"arguments", a>> >>)

\* The assistant texts that carry it: the object alone, in a fenced block, or
\* in a fenced block after some words.
Wraps == {"raw", "fence", "prose_fence"}
TextOf(w, j) ==
    CASE w = "raw" -> <<Raw(j)>>
      [] w = "fence" -> <<Fence(j)>>
      [] w = "prose_fence" -> <<Prose("hello"), Fence(j)>>

ShapeTexts ==
    {TextOf(w, ShapeOf(sh, n, a)) : w \in Wraps, sh \in Shapes, n \in ShapeNames, a \in ShapeArgs}

\* A round of the CLI whose first stream has delivered one of these texts and
\* no structured call, at the end of the stream.
ExtractInit ==
    /\ ui = "cli"
    /\ loop = "round"
    /\ user_input = "hi"
    /\ rounds = 1
    /\ chat_history = <<SystemTurn, UserTurn("hi")>>
    /\ tui_rebound = FALSE
    /\ tui_chat_history = <<SystemTurn>>
    /\ is_processing = FALSE
    /\ pc = "stream1"
    /\ full_response_content \in ShapeTexts
    /\ tool_calls = <<>>
    /\ idx = 1
    /\ final_ai_response = <<>>
    /\ delivered = 1
    /\ clock = 0
    /\ cwd = StartDir
    /\ snapshot = <<SystemTurn>>
    /\ trace = <<ChatEvent("first"), ChatEvent("first_again")>>
    /\ ending = "none"
    /\ retval = NoValue
    /\ rejected = 0
    /\ DeepseekChatStart
    /\ BellaSimpleStart("YOUR_DEEPSEEK_KEY")

ExtractNext ==
    \/ Stream1End
    \/ ExecTool
    \/ SecondCall

ExtractSpec == ExtractInit /\ [][ExtractNext]_vars

\* ------------------------------------------- extraction of overlapping shapes
\* The entries an assistant's JSON object can combine, each key of the four
\* shapes with a value of its own.
PriorityPairs ==
    << <<"arguments", JDict(<< <<"pattern", JStr("*.txt")>> >>)>>,
       <<"tool_call", JDict(<< <<"list_directory_tool", JDict(<<>>)>>,
                               <<"web_search_tool", JDict(<< <<"query", JStr("q")>> >>)>> >>)>>,
       <<"name", JStr("glob_tool")>>,
       <<"parameters", JDict(<< <<"pattern", JStr("*.py")>> >>)>>,
       <<"function", JDict(<< <<"name", JStr("read_file_tool")>>,
                              <<"arguments", JDict(<< <<"file_path", JStr("a.txt")>> >>)>> >>)>> >>
PriorityKeys == {PriorityPairs[i][1] : i \in 1..Len(PriorityPairs)}

\* The object that holds the entries of the keys in S.
PriorityObject(S) ==
    LET Chosen(pair) == pair[1] \in S
    IN  JDict(SelectSeq(PriorityPairs, Chosen))

PriorityTexts ==
    {TextOf(w, PriorityObject(S)) : w \in {"raw", "fence"}, S \in SUBSET PriorityKeys}

\* A round of the CLI at the end of its first stream, which has delivered the
\* text content and the structured calls in calls.
FirstStreamReceived(content, calls) ==
    /\ ui = "cli"
    /\ loop = "round"
    /\ user_input = "hi"
    /\ rounds = 1
    /\ chat_history = <<SystemTurn, UserTurn("hi")>>
    /\ tui_rebound = FALSE
    /\ tui_chat_history = <<SystemTurn>>
    /\ is_processing = FALSE
    /\ pc = "stream1"
    /\ full_response_content = content
    /\ tool_calls = calls
    /\ idx = 1
    /\ final_ai_response = <<>>
    /\ delivered = 1
    /\ clock = 0
    /\ cwd = StartDir
    /\ snapshot = <<SystemTurn>>
    /\ trace = <<ChatEvent("first"), ChatEvent("first_again")>>
    /\ ending = "none"
    /\ retval = NoValue
    /\ rejected = 0
    /\ DeepseekChatStart
    /\ BellaSimpleStart("YOUR_DEEPSEEK_KEY")

PriorityInit == \E text \in PriorityTexts : FirstStreamReceived(text, <<>>)

PriorityNext ==
    \/ Stream1End
    \/ ExecTool
    \/ SecondCall

PrioritySpec == PriorityInit /\ [][PriorityNext]_vars

\* --------------------------------------------------- rounds that run tools
\* Requests one first response may carry.
MaxRequests == 2

GlobCall(pattern, dir_path) ==
    FunctionCall(JStr("glob_tool"), JDict(<< <<"pattern", pattern>>, <<"dir_path", dir_path>> >>))

\* The calls a response asks for: glob_tool in an existing directory, with a
\* pattern that is no string, in a missing directory and in the default
\* directory; a name that is not registered; an empty name; a shell command
\* that does not exist; a shell command that is a number.
ToolObjects ==
    {GlobCall(JStr("*.py"), JStr("sub")),
     GlobCall(JNum("5"), JStr("sub")),
     GlobCall(JStr("*.py"), JStr("missing")),
     FunctionCall(JStr("glob_tool"), JDict(<< <<"pattern", JStr("*.py")>> >>)),
     FunctionCall(JStr("nope_tool"), JDict(<<>>)),
     FunctionCall(JStr(""), JDict(<<>>)),
     FunctionCall(JStr("run_shell_command_tool"),
                  JDict(<< <<"command", JStr("definitely_missing_cmd_xyz")>> >>)),
     FunctionCall(JStr("run_shell_command_tool"), JDict(<< <<"command", JNum("5")>> >>))}

ToolLists == UNION {[1..n -> ToolObjects] : n \in 1..MaxRequests}

\* The first response that asks for the calls of list q as structured tool
\* calls, and the one that writes them as fenced blocks of its text.
StructuredResponse(q) ==
    [content |-> <<>>,
     tool_calls |-> [i \in 1..Len(q) |->
                       Structured(Get(Get(q[i], "function"), "name"),
                                  Get(Get(q[i], "function"), "arguments"))]]
TextResponse(q) ==
    [content |-> [i \in 1..Len(q) |-> Fence(q[i])], tool_calls |-> <<>>]

ToolResponses == {StructuredResponse(q) : q \in ToolLists} \cup {TextResponse(q) : q \in ToolLists}

ToolInit == \E r \in ToolResponses : FirstStreamReceived(r.content, r.tool_calls)

ToolNext ==
    \/ Stream1End
    \/ ExecTool
    \/ ExecInterrupt
    \/ SecondCall

ToolSpec == ToolInit /\ [][ToolNext]_vars

\* ------------------------------------------------ src/deepseek_chat.py: main
\* Messages one session sends to the API (deepseek_chat and bella_simple).
MaxExchanges == 2

\* What the user types at "You >> ".
ChatInputs == {"", "  ", "hi", "EXIT", "quit"}

\* input() returns a line, line 48.
ChatReadInput ==
    /\ chat_pc = "input"
    /\ stdin = "open"
    /\ \E typed \in ChatInputs :
          /\ Strip(typed) = "hi" => exchanges < MaxExchanges
          /\ message' = Strip(typed)
    /\ chat_pc' = "dispatch"
    /\ UNCHANGED <<stdin, printed, exchanges, chatter, bella_simple>>

\* input() raises EOFError: Ctrl+D at a terminal, after which input can be read
\* again, or the end of a piped input, after which every input() raises it.
ChatInputEof ==
    /\ chat_pc = "input"
    /\ stdin' \in (IF stdin = "open" THEN {"open", "eof"} ELSE {"eof"})
    /\ chat_pc' = "except"
    /\ UNCHANGED <<message, printed, exchanges, chatter, bella_simple>>

\* Ctrl+C while input() waits or while the request runs (requests.post is
\* inside `except Exception`, which lets KeyboardInterrupt through).
ChatInterrupt ==
    /\ chat_pc \in {"input", "thinking"}
    /\ stdin = "open"
    /\ chat_pc' = "except"
    /\ UNCHANGED <<message, stdin, printed, exchanges, chatter, bella_simple>>

\* Lines 50-57: an empty line is skipped, quit and exit break the loop, any
\* other line is sent.
ChatDispatch ==
    /\ chat_pc = "dispatch"
    /\ IF message = "" THEN chat_pc' = "input" /\ printed' = printed
       ELSE IF Lower(message) \in {"quit", "exit"}
            THEN chat_pc' = "returned" /\ printed' = "Goodbye!"
       ELSE chat_pc' = "thinking" /\ printed' = "DeepSeek is thinking..."
    /\ UNCHANGED <<message, stdin, exchanges, chatter, bella_simple>>

\* talk_to_deepseek returns the answer or one of its error strings, lines 59-65.
ChatAnswer ==
    /\ chat_pc = "thinking"
    /\ printed' \in {"content", "API Error", "Connection Error"}
    /\ exchanges' = exchanges + 1
    /\ chat_pc' = "input"
    /\ UNCHANGED <<message, stdin, chatter, bella_simple>>

\* except (KeyboardInterrupt, EOFError), lines 67-68: the handler prints and
\* the while loop goes on.
ChatExcept ==
    /\ chat_pc = "except"
    /\ printed' = "Goodbye!"
    /\ chat_pc' = "input"
    /\ UNCHANGED <<message, stdin, exchanges, chatter, bella_simple>>

ChatNext ==
    \/ ChatReadInput
    \/ ChatInputEof
    \/ ChatInterrupt
    \/ ChatDispatch
    \/ ChatAnswer
    \/ ChatExcept

ChatInit ==
    /\ ui = "cli"
    /\ ChatterLoaded
    /\ DeepseekChatStart
    /\ BellaSimpleStart("YOUR_DEEPSEEK_KEY")

\* The process keeps running: a step that can be taken is taken.
ChatSpec == ChatInit /\ [][ChatNext]_vars /\ WF_vars(ChatNext)

\* --------------------------------------------------- src/bella_simple.py
\* Lines of one message.
MaxLines == 2

\* The keys the module can hold when it is loaded and the keys the user types.
SavedKeys == {"YOUR_DEEPSEEK_KEY", "sk-saved"}
TypedKeys == {"", "sk-typed", "bad"}
\* key.startswith("sk-").
StartsWithSk(key) == key \in {"sk-saved", "sk-typed"}

\* What the user types as a line that is no command, and at "Select mode".
TextLines == {"hi", ""}
Choices == {"1", "2", "3"}

\* "\n".join(lines).strip(): the lines without the empty ones at both ends.
Trimmed(ls) ==
    IF \A i \in 1..Len(ls) : ls[i] = "" THEN <<>>
    ELSE LET first == CHOOSE i \in 1..Len(ls) : ls[i] # "" /\ \A k \in 1..(i - 1) : ls[k] = ""
             last == CHOOSE i \in 1..Len(ls) : ls[i] # "" /\ \A k \in (i + 1)..Len(ls) : ls[k] = ""
         IN  SubSeq(ls, first, last)

Message(role, content) == [role |-> role, content |-> content]

\* The strings ask_ai can return: ask_deepseek without a valid key, with one
\* (the answer or an error string), ask_ollama_fallback (the answer, or its
\* string for anything raised).
AskAi(mode, key) ==
    IF mode = "deepseek"
    THEN IF StartsWithSk(key) THEN {"answer", "DeepSeek error"}
         ELSE {"DeepSeek: No valid API key"}
    ELSE {"answer", "Ollama not available"}

\* The top of the while loop: the last messages and the prompt are printed and
\* lines starts empty, lines 144-164.
SimpleShowPrompt ==
    /\ simple_pc = "prompt"
    /\ lines' = <<>>
    /\ simple_pc' = "reading"
    /\ UNCHANGED <<AI_MODE, DEEPSEEK_KEY, messages, chatter, deepseek_chat>>

\* A line that is no command is kept, line 191.
SimpleAppendLine ==
    /\ simple_pc = "reading"
    /\ Len(lines) < MaxLines
    /\ \E line \in TextLines : lines' = Append(lines, line)
    /\ UNCHANGED <<AI_MODE, DEEPSEEK_KEY, messages, simple_pc, chatter, deepseek_chat>>

\* "help", lines 170-178.
SimpleHelp ==
    /\ simple_pc = "reading"
    /\ lines' = <<>>
    /\ UNCHANGED <<AI_MODE, DEEPSEEK_KEY, messages, simple_pc, chatter, deepseek_chat>>

\* "clear", lines 179-183.
SimpleClear ==
    /\ simple_pc = "reading"
    /\ messages' = <<>>
    /\ lines' = <<>>
    /\ UNCHANGED <<AI_MODE, DEEPSEEK_KEY, simple_pc, chatter, deepseek_chat>>

\* "quit" or "exit", and EOFError or KeyboardInterrupt at input(): return.
SimpleQuit ==
    /\ simple_pc = "reading"
    /\ simple_pc' = "returned"
    /\ UNCHANGED <<AI_MODE, DEEPSEEK_KEY, messages, lines, chatter, deepseek_chat>>

\* switch_mode() with the user's choice and, when a key is asked for, the key
\* typed: the mode and the key it leaves, lines 83-128.
SwitchMode(mode, key, choice, typed) ==
    IF choice = "1" THEN [mode |-> "ollama", key |-> key]
    ELSE IF choice = "2"
         THEN [mode |-> "deepseek",
               key |-> IF ~StartsWithSk(key) /\ typed # "" /\ StartsWithSk(typed)
                       THEN typed ELSE key]
    ELSE [mode |-> mode, key |-> key]

\* "mode", lines 186-189: switch_mode runs to its end, or its second input()
\* is ended by Ctrl+C or EOF, which simple_tui's handler turns into a return.
SimpleMode ==
    /\ simple_pc = "reading"
    /\ \/ \E choice \in Choices, typed \in TypedKeys :
             LET after == SwitchMode(AI_MODE, DEEPSEEK_KEY, choice, typed)
             IN  /\ AI_MODE' = after.mode
                 /\ DEEPSEEK_KEY' = after.key
                 /\ lines' = <<>>
                 /\ simple_pc' = simple_pc
       \/ /\ ~StartsWithSk(DEEPSEEK_KEY)
          /\ AI_MODE' = "deepseek"
          /\ simple_pc' = "returned"
          /\ UNCHANGED <<DEEPSEEK_KEY, lines>>
    /\ UNCHANGED <<messages, chatter, deepseek_chat>>

\* ";;", lines 168-169 and 195-201: an empty message goes back to the prompt,
\* any other is appended as the user's.
SimpleSubmit ==
    /\ simple_pc = "reading"
    /\ IF Trimmed(lines) = <<>>
       THEN /\ simple_pc' = "prompt"
            /\ messages' = messages
       ELSE /\ Len(messages) < 2 * MaxExchanges
            /\ messages' = Append(messages, Message("user", Trimmed(lines)))
            /\ simple_pc' = "asking"
    /\ UNCHANGED <<AI_MODE, DEEPSEEK_KEY, lines, chatter, deepseek_chat>>

\* Mutant: an answer that reports an error is not kept.
SimpleAnswer_Mut ==
    /\ simple_pc = "asking"
    /\ \E response \in AskAi(AI_MODE, DEEPSEEK_KEY) :
          messages' = IF response = "answer"
                      THEN Append(messages, Message("assistant", <<response>>))
                      ELSE messages
    /\ simple_pc' = "prompt"
    /\ UNCHANGED <<AI_MODE, DEEPSEEK_KEY, lines, chatter, deepseek_chat>>

\* ask_ai returns and its string is appended as the assistant's, lines 207-208.
SimpleAnswer ==
    /\ simple_pc = "asking"
    /\ \E response \in AskAi(AI_MODE, DEEPSEEK_KEY) :
          messages' = Append(messages, Message("assistant", <<response>>))
    /\ simple_pc' = "prompt"
    /\ UNCHANGED <<AI_MODE, DEEPSEEK_KEY, lines, chatter, deepseek_chat>>

\* Ctrl+C in time.sleep(1) or in the request of ask_deepseek: nothing in
\* simple_tui catches it there, and the program ends.
SimpleAskInterrupt ==
    /\ simple_pc = "asking"
    /\ simple_pc' = "raised"
    /\ UNCHANGED <<AI_MODE, DEEPSEEK_KEY, messages, lines, chatter, deepseek_chat>>

SimpleNext ==
    \/ SimpleShowPrompt
    \/ SimpleAppendLine
    \/ SimpleHelp
    \/ SimpleClear
    \/ SimpleQuit
    \/ SimpleMode
    \/ SimpleSubmit
    \/ SimpleAnswer
    \/ SimpleAskInterrupt

SimpleInit ==
    /\ ui = "cli"
    /\ ChatterLoaded
    /\ DeepseekChatStart
    /\ \E key \in SavedKeys : BellaSimpleStart(key)

SimpleSpec == SimpleInit /\ [][SimpleNext]_vars

\* ================================================================== claims
IsChat(e) == e.ev = "chat"
IsTool(e) == e.ev = "tool"
\* The turns the round has appended to the Store it was called with.
RoundTurns == SubSeq(chat_history, Len(snapshot) + 1, Len(chat_history))
\* The round made its continuation call.
Continued == \E i \in 1..Len(trace) : trace[i] = ChatEvent("second")
\* The requests of the round that _execute_tool_call does not skip.
NamedRequests == {i \in 1..Len(tool_calls) : Truthy(DeriveCall(tool_calls[i]).name)}

\* C1: in every reachable state the Store (chatter's list, and the list the TUI
\* names) is non-empty and its first turn has role system; the rollback pop
\* never removes the system turn.
C1_SystemTurnFirst ==
    /\ chat_history # <<>>
    /\ chat_history[1].role = "system"
    /\ TuiHistory # <<>>
    /\ TuiHistory[1].role = "system"

\* A second round rolled back after the TUI's clear.
C1_Witness ==
    /\ loop = "returned"
    /\ ending = "first_call_failed"
    /\ tui_rebound
    /\ rounds = 2

\* C2: a round that went through tools ends with exactly user, the tool turns of
\* the first response's requests, one assistant turn holding the continuation
\* text; no _execute_tool_call follows the continuation call, whatever the
\* continuation response carries.
C2_SecondResponseNotExecuted ==
    /\ \A i, j \in 1..Len(trace) :
          (trace[i] = ChatEvent("second") /\ i < j) => trace[j].ev # "tool"
    /\ (loop = "returned" /\ ending = "tools_done") =>
          LET added == RoundTurns
              n == Len(added)
          IN  /\ n = Cardinality(NamedRequests) + 2
              /\ added[1] = UserTurn(user_input)
              /\ \A i \in 2..(n - 1) : added[i].role = "tool"
              /\ added[n] = AssistantTurn(final_ai_response)

\* A committed tool round whose continuation text holds a valid tool-call block.
C2_Witness ==
    /\ loop = "returned"
    /\ ending = "tools_done"
    /\ \E i \in 1..Len(final_ai_response) : final_ai_response[i] = Fence(ReadFileCall)

\* C3: a round calls ollama.chat at most twice.
C3_AtMostTwoGatewayCalls == Len(SelectSeq(trace, IsChat)) <= 2

\* C4: the loop's step on an empty input leaves the Store and the calls of
\* ollama.chat as they are.
C4_EmptyInputNoOp ==
    [][(loop = "dispatch" /\ user_input = "")
          => (store' = store /\ trace' = trace /\ loop' = "prompt")]_vars

\* An empty input read after a round has filled the Store.
C4_Witness ==
    /\ loop = "dispatch"
    /\ user_input = ""
    /\ Len(chat_history) > 1

C6_PartialContentKept ==
    (loop = "returned" /\ ending = "first_stream_error" /\ full_response_content # <<>>) =>
        /\ chat_history[Len(chat_history)] = AssistantTurn(full_response_content)
        /\ ~Continued

\* C7: a KeyboardInterrupt in the first stream ends the round with the user
\* turn as the only turn added, no tool run and no continuation call.
C7_InterruptKeepsUserTurn ==
    (loop = "returned" /\ ending = "first_stream_interrupt") =>
        /\ chat_history = Append(snapshot, UserTurn(user_input))
        /\ \A i \in 1..Len(trace) : trace[i].ev # "tool"
        /\ ~Continued
        /\ retval = Return(<<>>)

\* The interrupt comes after content and a structured call were received.
C7_Witness ==
    /\ loop = "returned"
    /\ ending = "first_stream_interrupt"
    /\ full_response_content # <<>>
    /\ tool_calls # <<>>

\* C8: a round that was neither interrupted by the user nor rolled back ends
\* with an assistant turn it appended as the last turn of the Store.
C8_RoundEndsCommitted ==
    (/\ loop = "returned"
     /\ ending \notin {"first_call_failed", "first_stream_interrupt", "exec_interrupt",
                       "second_stream_interrupt"}) =>
        /\ Len(chat_history) > Len(snapshot) + 1
        /\ chat_history[Len(chat_history)].role = "assistant"

\* C9: when the first stream ends with at least one structured call, the end of
\* the stream adds no request: the request list is the structured calls.
C9_StructuredPrecedence ==
    [][(pc = "stream1" /\ pc' # "stream1" /\ tool_calls # <<>>)
          => (tool_calls' = tool_calls /\ chat_history' = chat_history)]_vars

\* One structured call and a text with a valid tool-call block: one request.
C9_Witness ==
    /\ pc = "exec"
    /\ Len(tool_calls) = 1
    /\ tool_calls[1].origin = "structured"
    /\ \E i \in 1..Len(full_response_content) : full_response_content[i] = Fence(ReadFileCall)

\* C10: for every name n and argument mapping a, the text of each of the four
\* shapes describing n(a) extracts to one request, and _execute_tool_call
\* derives name n and arguments a from it.
C10_FourShapesAgree ==
    \A w \in Wraps, sh \in Shapes, n \in ShapeNames, a \in ShapeArgs :
        (full_response_content = TextOf(w, ShapeOf(sh, n, a)) /\ pc # "stream1") =>
            /\ ending \notin {"extract_error", "exec_error"}
            /\ Len(tool_calls) = 1
            /\ \A i \in 1..Len(trace) :
                  trace[i].ev = "tool" => (trace[i].name = JStr(n) /\ trace[i].args = a)

\* The tool_call shape of an unregistered name, run by the Executor.
C10_Witness ==
    /\ pc = "exec"
    /\ idx = 2
    /\ \E a \in ShapeArgs :
          full_response_content = TextOf("raw", ShapeOf("tool_call", "nope_tool", a))
    /\ \E i \in 1..Len(trace) : trace[i].ev = "tool"

\* The first response of the round has been handled: its stream ended and the
\* step that follows the stream was taken.
FirstResponseHandled ==
    \/ pc \in {"exec", "stream2"}
    \/ loop = "returned" /\ ending \notin {"first_call_failed", "first_stream_interrupt",
                                            "first_stream_error"}
\* The JSON value is of one of the four accepted shapes.
MatchesAShape(j) ==
    /\ j.kind = "dict"
    /\ \/ HasKey(j, "function")
       \/ HasKey(j, "name")
       \/ HasKey(j, "tool_call") /\ Get(j, "tool_call").kind = "dict"
\* The name a request in canonical form asks for.
RequestName(item) == Get(Get(item.data, "function"), "name")
IsToolTurn(turn) == turn.role = "tool"

\* C11: a JSON object is normalised by the first shape, in the order function,
\* name+parameters, tool_call, name, whose keys it has, and by that shape only:
\* with `function` the object itself is the request; else with `name` and
\* `parameters` the request has the parameters as arguments; else with
\* `tool_call` there is one request per entry of the map, in map order; else
\* with `name` the request has the `arguments`, the empty mapping when absent;
\* else there is no request.
C11_ShapePriority ==
    \A w \in {"raw", "fence"}, S \in SUBSET PriorityKeys :
        (full_response_content = TextOf(w, PriorityObject(S)) /\ pc # "stream1") =>
            /\ ending # "extract_error"
            /\ tool_calls =
                  IF "function" \in S THEN <<Extracted(PriorityObject(S))>>
                  ELSE IF {"name", "parameters"} \subseteq S
                  THEN <<Extracted(FunctionCall(JStr("glob_tool"),
                                                JDict(<< <<"pattern", JStr("*.py")>> >>)))>>
                  ELSE IF "tool_call" \in S
                  THEN <<Extracted(FunctionCall(JStr("list_directory_tool"), JDict(<<>>))),
                         Extracted(FunctionCall(JStr("web_search_tool"),
                                                JDict(<< <<"query", JStr("q")>> >>)))>>
                  ELSE IF "name" \in S
                  THEN <<Extracted(FunctionCall(JStr("glob_tool"),
                            IF "arguments" \in S THEN JDict(<< <<"pattern", JStr("*.txt")>> >>)
                            ELSE JDict(<<>>)))>>
                  ELSE <<>>

\* An object with name, parameters, arguments and tool_call, its one request run.
C11_Witness ==
    /\ full_response_content =
          TextOf("fence", PriorityObject({"name", "parameters", "arguments", "tool_call"}))
    /\ pc = "exec"
    /\ Len(tool_calls) = 1
    /\ idx = 2

\* C12: when extraction is attempted on a text whose JSON values match none of
\* the four shapes, no request is made of them and no error is raised.
C12_UnmatchedValuesDropped ==
    (/\ FirstResponseHandled
     /\ full_response_content # <<>>
     /\ \A i \in 1..Len(tool_calls) : tool_calls[i].origin # "structured"
     /\ \A i \in 1..Len(JsonBlocks(full_response_content)) :
           LET block == JsonBlocks(full_response_content)[i]
           IN  block.k # "badfence" => ~MatchesAShape(block.j)) =>
        /\ ending # "extract_error"
        /\ tool_calls = <<>>

\* C13: a first response without structured calls whose non-empty text yields
\* no request ends the round with that text as the one turn added after the
\* user turn, no tool run and no continuation call; the tool loop is entered
\* only with requests.
C13_TextIsFinalAnswer ==
    /\ pc \in {"exec", "stream2"} => tool_calls # <<>>
    /\ (/\ loop = "returned"
        /\ ending = "no_tools"
        /\ tool_calls = <<>>
        /\ full_response_content # <<>>) =>
           /\ chat_history = snapshot \o <<UserTurn(user_input),
                                            AssistantTurn(full_response_content)>>
           /\ trace = <<ChatEvent("first"), ChatEvent("first_again")>>
           /\ retval = Return(full_response_content)

\* A text of two chunks, the whole-text JSON attempt failing on it.
C13_Witness ==
    /\ loop = "returned"
    /\ ending = "no_tools"
    /\ full_response_content = <<Prose("hello"), Raw(JNum("5"))>>

\* C14: no call of _execute_tool_call ends a round with an error.
C14_ExecutionNeverRaises ==
    loop = "returned" => ending # "exec_error"

\* C15: the execution of a request whose name is not registered enters no
\* capability and appends a tool turn with an id and the "Unknown tool" text,
\* and the loop goes on; a round with such a request that no later request
\* ends makes its continuation call.
C15_UnknownToolContinues ==
    /\ [][(/\ pc = "exec"
            /\ idx <= Len(tool_calls)
            /\ RequestName(tool_calls[idx]) = JStr("nope_tool")
            /\ ending' # "exec_interrupt") =>
              /\ pc' = "exec"
              /\ idx' = idx + 1
              /\ ending' = "none"
              /\ trace' = Append(trace, ToolEvent(JStr("nope_tool"), JDict(<<>>), FALSE))
              /\ Len(chat_history') = Len(chat_history) + 1
              /\ SubSeq(chat_history', 1, Len(chat_history)) = chat_history
              /\ LET turn == chat_history'[Len(chat_history')]
                 IN  /\ turn.role = "tool"
                     /\ turn.content = <<Out("Unknown tool", JStr("nope_tool"))>>
                     /\ turn.tool_call_id # NoId
              /\ cwd' = cwd]_vars
    /\ []((/\ loop = "returned"
            /\ ending # "exec_interrupt"
            /\ \E i \in 1..Len(tool_calls) : RequestName(tool_calls[i]) = JStr("nope_tool"))
              => Continued)

\* The continuation call made after an unregistered name and a shell command.
C15_Witness ==
    /\ Continued
    /\ Len(tool_calls) = 2
    /\ RequestName(tool_calls[1]) = JStr("nope_tool")
    /\ RequestName(tool_calls[2]) = JStr("run_shell_command_tool")
    /\ Len(SelectSeq(RoundTurns, IsToolTurn)) = 2

\* The tool turns the round has appended, and the calls of _execute_tool_call.
RoundToolTurns == SelectSeq(RoundTurns, IsToolTurn)
ToolEvents == SelectSeq(trace, IsTool)
\* The request has a name that is not empty.
HasName(item) == RequestName(item).kind = "str" /\ RequestName(item).s # ""
\* The tool output reports a failure.
IsFailure(turn) == turn.role = "tool" /\ turn.content[1].s \in {"failed", "Error executing tool"}

\* C16: the execution of a request for a registered tool appends one tool turn,
\* whether the tool succeeds or fails, and the loop goes on with the next
\* request; a round in which a tool failed, unless Ctrl+C ends it, has run all
\* its requests and made its continuation call.
C16_FailingToolContinues ==
    /\ [][(/\ pc = "exec"
            /\ idx <= Len(tool_calls)
            /\ RequestName(tool_calls[idx]).kind = "str"
            /\ RequestName(tool_calls[idx]).s \in AVAILABLE_TOOLS
            /\ ending' # "exec_interrupt") =>
              /\ pc' = "exec"
              /\ idx' = idx + 1
              /\ ending' = "none"
              /\ Len(chat_history') = Len(chat_history) + 1
              /\ SubSeq(chat_history', 1, Len(chat_history)) = chat_history
              /\ LET turn == chat_history'[Len(chat_history')]
                 IN  /\ turn.role = "tool"
                     /\ turn.content[1].s \in {"ok", "failed", "Error executing tool"}
                     /\ turn.tool_call_id # NoId]_vars
    /\ []((/\ loop = "returned"
            /\ ending # "exec_interrupt"
            /\ \E i \in 1..Len(RoundToolTurns) : IsFailure(RoundToolTurns[i]))
              => (Continued /\ Len(ToolEvents) = Len(tool_calls)))

\* The shell command that does not exist fails, glob_tool runs after it and
\* the continuation call is made.
C16_Witness ==
    /\ Continued
    /\ Len(tool_calls) = 2
    /\ RequestName(tool_calls[1]) = JStr("run_shell_command_tool")
    /\ RequestName(tool_calls[2]) = JStr("glob_tool")
    /\ Len(RoundToolTurns) = 2
    /\ RoundToolTurns[1].content = <<Out("failed", JStr("run_shell_command_tool"))>>

\* C17: no call of a tool, successful or failing, changes the working directory.
C17_GlobRestoresCwd ==
    [][ending' # "exec_interrupt" => cwd' = cwd]_vars

\* C18: the calls of _execute_tool_call are made in the order of the request
\* list, one per request, and when a call is made the tool turns of all the
\* requests before it are in the Store, in the order of the requests.
C18_SequentialInOrder ==
    /\ Len(ToolEvents) \in {idx - 1, idx}
    /\ Len(ToolEvents) <= Len(tool_calls)
    /\ \A k \in 1..Len(ToolEvents) :
          /\ ToolEvents[k].name = RequestName(tool_calls[k])
          /\ ToolEvents[k].args = Get(Get(tool_calls[k].data, "function"), "arguments")
    /\ pc = "exec" =>
          /\ Len(ToolEvents) = idx - 1
          /\ [k \in 1..Len(RoundToolTurns) |-> RoundToolTurns[k].content[1].j]
                = [k \in 1..Len(SelectSeq(SubSeq(tool_calls, 1, idx - 1), HasName)) |->
                     RequestName(SelectSeq(SubSeq(tool_calls, 1, idx - 1), HasName)[k])]

\* Two different requests run, their turns in the Store.
C18_Witness ==
    /\ pc = "exec"
    /\ idx = 3
    /\ RequestName(tool_calls[1]) = JStr("nope_tool")
    /\ RequestName(tool_calls[2]) = JStr("run_shell_command_tool")
    /\ Len(RoundToolTurns) = 2

\* C19 as stated: when the continuation call is made, the round has appended
\* as many tool turns as it has requests.
C19_OneToolTurnPerRequest ==
    Continued => Len(RoundToolTurns) = Len(tool_calls)

\* C19, amended: when the continuation call is made, the round has appended one
\* tool turn for every request with a non-empty name, in order, each with an
\* id of the request's origin and the output of that request's tool; a request
\* without a name has no tool turn.
C19_OneToolTurnPerNamedRequest ==
    Continued =>
        LET named == SelectSeq(tool_calls, HasName)
        IN  /\ Len(RoundToolTurns) = Len(named)
            /\ \A k \in 1..Len(named) :
                  /\ RoundToolTurns[k].tool_call_id.prefix =
                        (IF named[k].origin = "extracted" THEN "generated_from_text_"
                         ELSE "generated_ollama_tool_id_")
                  /\ Len(RoundToolTurns[k].content) = 1
                  /\ RoundToolTurns[k].content[1].k = "out"
                  /\ RoundToolTurns[k].content[1].j = RequestName(named[k])

\* A request without a name before a named one, the continuation call made.
C19_Witness ==
    /\ Continued
    /\ Len(tool_calls) = 2
    /\ ~HasName(tool_calls[1])
    /\ HasName(tool_calls[2])
    /\ Len(RoundToolTurns) = 1

\* C20: the continuation call is made when every request of a non-empty list
\* has been run and no continuation call was made before, and the Store it is
\* given is the Store of the round's start, the user turn and the round's tool
\* turns; every call of _execute_tool_call comes after the first calls of
\* ollama.chat and before the continuation call.
C20_ContinuationAfterTools ==
    /\ [][(trace' = Append(trace, ChatEvent("second"))) =>
              /\ ~Continued
              /\ tool_calls # <<>>
              /\ idx = Len(tool_calls) + 1
              /\ Len(ToolEvents) = Len(tool_calls)
              /\ chat_history' = chat_history
              /\ chat_history = (snapshot \o <<UserTurn(user_input)>>) \o RoundToolTurns
              /\ Len(RoundToolTurns) = Cardinality(NamedRequests)]_vars
    /\ [](\A i, j \in 1..Len(trace) :
             trace[i].ev = "tool" /\ trace[j].ev = "chat" =>
                IF trace[j].site = "second" THEN i < j ELSE j < i)
    /\ [](\A i, j \in 1..Len(trace) :
             trace[i] = ChatEvent("second") /\ trace[j] = ChatEvent("second") => i = j)

\* The continuation call of a second round, after two tools.
C20_Witness ==
    /\ pc = "stream2"
    /\ Len(snapshot) > 1
    /\ Len(tool_calls) = 2
    /\ Len(RoundToolTurns) = 2

\* Sequence p is a prefix of sequence q.
IsPrefix(p, q) == Len(p) <= Len(q) /\ SubSeq(q, 1, Len(p)) = p

\* C21: when a first call of ollama.chat is made, the Store is the Store of the
\* round's start followed by the round's user turn.
C21_UserTurnBeforeFirstCall ==
    [][(/\ Len(trace') = Len(trace) + 1
        /\ trace'[Len(trace')].ev = "chat"
        /\ trace'[Len(trace')].site \in {"first", "first_again"}) =>
          /\ chat_history = Append(snapshot, UserTurn(user_input))
          /\ chat_history[Len(chat_history)].role = "user"]_vars

\* Both first calls of a second round made.
C21_Witness ==
    /\ pc = "stream1"
    /\ rounds = 2
    /\ Len(snapshot) > 2
    /\ trace = <<ChatEvent("first"), ChatEvent("first_again")>>

\* C22: a round that ends with an assistant turn it appended returns that
\* turn's content: the first response's text when it had no request, the
\* continuation response's text when it had.
C22_ReturnsCommittedText ==
    (/\ loop = "returned"
     /\ Len(chat_history) > Len(snapshot) + 1
     /\ chat_history[Len(chat_history)].role = "assistant") =>
        LET last == chat_history[Len(chat_history)]
        IN  /\ retval = Return(last.content)
            /\ last.content = IF tool_calls = <<>> THEN full_response_content
                               ELSE final_ai_response

\* A tool round whose two responses have different texts.
C22_Witness ==
    /\ loop = "returned"
    /\ ending = "tools_done"
    /\ full_response_content = <<Fence(ReadFileCall)>>
    /\ final_ai_response = <<Prose("done")>>

\* C23: the clear command of the TUI leaves the Store ask_ollama uses with the
\* system turn only.
C23_ClearResetsStore ==
    [][(loop = "dispatch" /\ ui = "tui" /\ Lower(user_input) = "clear")
          => chat_history' = <<SystemTurn>>]_vars

\* C24 as stated: no step makes the Store lose or change a turn it has.
C24_AppendOnly ==
    [][IsPrefix(chat_history, chat_history')]_vars

\* C24, amended: while a round runs and when it ends, the Store of its start is
\* a prefix of the Store; a step that changes the Store appends to it, but for
\* the rollback of a failed first call, which removes the round's user turn
\* and nothing else.
C24_AppendOnlyButRollback ==
    /\ [](loop \in {"round", "returned"} => IsPrefix(snapshot, chat_history))
    /\ [][chat_history' # chat_history =>
              \/ IsPrefix(chat_history, chat_history')
              \/ /\ ending' = "first_call_failed"
                 /\ chat_history = Append(snapshot, UserTurn(user_input))
                 /\ chat_history' = snapshot]_vars

\* The second of the first calls fails in a round that follows another.
C24_Witness ==
    /\ loop = "returned"
    /\ ending = "first_call_failed"
    /\ trace = <<ChatEvent("first"), ChatEvent("first_again")>>
    /\ Len(snapshot) > 1

\* C25: in the CLI a round that raised an error leads back to the prompt with
\* the Store as the round left it, and the loop ends only at Ctrl+C at the
\* prompt, on the exit command, or on a Ctrl+C that ended a round.
C25_ErrorsDoNotEndCli ==
    /\ [][(ui = "cli" /\ loop = "returned" /\ retval.kind = "raise")
              => (loop' = "prompt" /\ store' = store)]_vars
    /\ [][(ui = "cli" /\ loop # "ended" /\ loop' = "ended") =>
              \/ loop = "prompt"
              \/ loop = "dispatch" /\ Lower(user_input) = "exit"
              \/ loop = "returned" /\ retval.kind = "interrupt"]_vars

\* A round of the CLI ended by an error of the Extractor.
C25_Witness ==
    /\ ui = "cli"
    /\ loop = "returned"
    /\ ending = "extract_error"
    /\ retval.kind = "raise"

\* C26: the execution of a request for a registered tool whose arguments give
\* every parameter that has no default, whatever other keys they hold, enters
\* the capability and appends the capability's answer.
C26_UnknownKeysTolerated ==
    \A k \in 1..Len(RoundToolTurns) :
        (/\ ToolEvents[k].name.kind = "str"
         /\ ToolEvents[k].name.s \in {"read_file_tool", "run_shell_command_tool"}
         /\ ToolEvents[k].args.kind = "dict"
         /\ RequiredParams(ToolEvents[k].name.s) \subseteq Keys(ToolEvents[k].args)) =>
            /\ ToolEvents[k].invoked
            /\ RoundToolTurns[k].content[1].s \in CapOutcomes

\* C27: a capability that was entered returns a string: the tool turn of the
\* execution holds an answer of the capability, not the Executor's report of
\* an error raised by it.
C27_CapabilitiesNeverRaise ==
    [][(/\ Len(trace') = Len(trace) + 1
        /\ trace'[Len(trace')].ev = "tool"
        /\ trace'[Len(trace')].invoked
        /\ ending' # "exec_interrupt") =>
          /\ Len(chat_history') = Len(chat_history) + 1
          /\ chat_history'[Len(chat_history')].role = "tool"
          /\ chat_history'[Len(chat_history')].content[1].s \in CapOutcomes]_vars

\* C28: every tool turn of the Store has an id, and no two tool turns have the
\* same id.
C28_ToolCallIdsDistinct ==
    \A i, j \in 1..Len(chat_history) :
        (chat_history[i].role = "tool" /\ chat_history[j].role = "tool") =>
            /\ chat_history[i].tool_call_id # NoId
            /\ i # j => chat_history[i].tool_call_id # chat_history[j].tool_call_id

\* C29: input is read and dispatched only while no round runs, and a call of
\* process_user_input answered "Already processing..." changes neither the
\* Store nor the calls made nor the round in progress.
C29_RoundsNeverOverlap ==
    /\ [](loop \in {"prompt", "dispatch"} => (pc = "idle" /\ ~is_processing))
    /\ [](pc # "idle" => loop = "round")
    /\ [](ui = "tui" => (is_processing <=> loop = "round"))
    /\ [][rejected' > rejected =>
              /\ store' = store
              /\ trace' = trace
              /\ pc' = pc
              /\ locals' = locals
              /\ is_processing' = is_processing
              /\ loop' = loop]_vars

\* A call answered "Already processing..." while the tools of a round run.
C29_Witness ==
    /\ rejected = 1
    /\ pc = "exec"
    /\ idx = 2
    /\ is_processing

\* C30: when extraction is attempted on a text with fenced blocks, the
\* requests are those of its valid blocks, in the order of the text; a block
\* that is not valid JSON and a value outside the blocks add and remove none.
C30_FencedBlocksInOrder ==
    (/\ FirstResponseHandled
     /\ ending # "extract_error"
     /\ \A i \in 1..Len(tool_calls) : tool_calls[i].origin # "structured"
     /\ \E i \in 1..Len(full_response_content) :
           full_response_content[i].k \in {"fence", "badfence", "openfence"}) =>
        LET IsValidBlock(piece) == piece.k = "fence"
            valid == SelectSeq(full_response_content, IsValidBlock)
        IN  tool_calls = [k \in 1..Len(valid) |-> Extracted(valid[k].j)]

\* C31: the turns a round has appended hold at most one assistant turn, which
\* is the last of them; when the round has requests (structured or extracted)
\* that turn holds the continuation response, and a tool round that ran to its
\* end has appended exactly user, tool..., assistant.
C31_OneAssistantTurnAfterTools ==
    LET assistants == {i \in 1..Len(RoundTurns) : RoundTurns[i].role = "assistant"}
    IN  /\ Cardinality(assistants) <= 1
        /\ \A i \in assistants : i = Len(RoundTurns)
        /\ (tool_calls # <<>> /\ assistants # {}) =>
               /\ ending = "tools_done"
               /\ RoundTurns[Len(RoundTurns)] = AssistantTurn(final_ai_response)
        /\ ending = "tools_done" =>
               RoundTurns = (<<UserTurn(user_input)>> \o RoundToolTurns)
                            \o <<AssistantTurn(final_ai_response)>>

\* A committed round of two extracted requests whose two responses differ.
C31_Witness ==
    /\ ending = "tools_done"
    /\ Len(tool_calls) = 2
    /\ \A i \in 1..2 : tool_calls[i].origin = "extracted"
    /\ Len(RoundToolTurns) = 2
    /\ Len(RoundTurns) = 4
    /\ full_response_content # final_ai_response

\* C32: a continuation call that fails changes nothing in the Store, and the
\* round it ends has left the user turn and its tool turns there, without an
\* assistant turn, and returns the error text.
C32_FailedContinuationKeepsTurns ==
    /\ [](ending = "second_call_failed" =>
             /\ RoundTurns = <<UserTurn(user_input)>> \o RoundToolTurns
             /\ Len(RoundToolTurns) = Cardinality(NamedRequests)
             /\ retval = Return(<<Prose("str(e)")>>))
    /\ [][ending' = "second_call_failed" => chat_history' = chat_history]_vars

\* A continuation call that failed after two tool turns.
C32_Witness ==
    /\ loop = "returned"
    /\ ending = "second_call_failed"
    /\ Len(RoundToolTurns) = 2
    /\ Len(RoundTurns) = 3

\* C33: in the TUI every end of a round, by return, by Exception or by
\* KeyboardInterrupt, clears is_processing, and the flag is clear whenever the
\* next input is read.
C33_FlagClearedOnEveryExit ==
    /\ [][(ui = "tui" /\ loop = "round" /\ loop' # "round") =>
              (is_processing /\ ~is_processing')]_vars
    /\ []((ui = "tui" /\ loop \in {"returned", "prompt", "ended"}) => ~is_processing)

\* A round of the TUI ended by Ctrl+C while its tools ran.
C33_Witness ==
    /\ ui = "tui"
    /\ loop = "returned"
    /\ ending = "exec_interrupt"
    /\ retval.kind = "interrupt"
    /\ ~is_processing

\* C34: once input() has raised EOFError or KeyboardInterrupt, main of
\* deepseek_chat eventually returns.
C34_ReturnsAfterEofOrInterrupt == (chat_pc = "except") ~> (chat_pc = "returned")

\* C35: AI_MODE is "ollama" or "deepseek", and it is "deepseek" only while the
\* key held starts with "sk-".
C35_DeepseekModeHasKey ==
    /\ AI_MODE \in {"ollama", "deepseek"}
    /\ AI_MODE = "deepseek" => StartsWithSk(DEEPSEEK_KEY)

\* The messages alternate user, assistant and end with an assistant's.
Alternates(ms) ==
    /\ Len(ms) % 2 = 0
    /\ \A i \in 1..Len(ms) : ms[i].role = (IF i % 2 = 1 THEN "user" ELSE "assistant")

\* C36: while bella_simple shows its prompt or reads lines, the messages are
\* an even number alternating user, assistant; a submitted message that is not
\* empty appends the user's message and, when ask_ai returns, the assistant's;
\* an empty one appends nothing; any other change of the list empties it.
C36_MessagesAlternate ==
    /\ [](simple_pc \in {"prompt", "reading"} => Alternates(messages))
    /\ [][/\ (simple_pc = "reading" /\ simple_pc' = "asking") =>
                /\ Trimmed(lines) # <<>>
                /\ messages' = Append(messages, Message("user", Trimmed(lines)))
          /\ (simple_pc = "asking" /\ simple_pc' = "prompt") =>
                /\ Len(messages') = Len(messages) + 1
                /\ SubSeq(messages', 1, Len(messages)) = messages
                /\ messages'[Len(messages')].role = "assistant"
          /\ (simple_pc = "reading" /\ simple_pc' = "prompt") =>
                /\ Trimmed(lines) = <<>>
                /\ messages' = messages
          /\ (simple_pc = "reading" /\ simple_pc' = "reading" /\ messages' # messages) =>
                messages' = <<>>]_vars

\* The prompt after a message with an empty first line was answered by the
\* error string of ask_ollama_fallback.
C36_Witness ==
    /\ simple_pc = "prompt"
    /\ lines = <<"", "hi">>
    /\ messages = <<Message("user", <<"hi">>),
                    Message("assistant", <<"Ollama not available">>)>>

=============================================================================
